---- MODULE Spec2Model ----
(***************************************************************************)
(* The KATCP proxy of katcp/txbase.py: the per-device synchronization      *)
(* state machine (DeviceHandler), the proxy registry (ProxyKatCP) and the  *)
(* upstream request handlers (DeviceServer).                               *)
(*                                                                         *)
(* Strings are modelled as sequences of tokens, so that prefixes, slices   *)
(* and joins are computed as the code computes them.                       *)
(***************************************************************************)
EXTENDS Integers, Sequences, FiniteSets, TLC

\* ---------------------------------------------------------------- bounds
\* Number of connection losses caused by the peer over one run.
MaxDrops == 2
\* Number of requests the upstream client sends over one run.
MaxClientRequests == 1
\* Largest number of informs a device attaches to a forwarded request.
MaxInforms == 1
\* Number of client connections the server accepts over one run.
MaxStreams == 3
\* Number of send_message and mass_send_message calls over one run.
MaxSends == 2
\* Number of lines the clients send over one run.
MaxLines == 3
\* Number of start() and stop() calls over one run.
MaxCalls == 4

\* ------------------------------------------------------------ the devices
\* DeviceHandler.SYNCING, SYNCED, UNSYNCED = range(3)
SYNCING == 0
SYNCED == 1
UNSYNCED == 2
STATE_NAMES == <<"syncing", "synced", "unsynced">>

\* The device names a subclass may configure (the DeviceHandler objects).
Devs == {"A", "sensor"}

\* What each downstream device answers to ?help and to ?sensor-list.
DevRequests == [d \in Devs |-> << <<"reboot">> >>]
DevSensors ==
  [d \in Devs |-> IF d = "A" THEN << <<"x">> >>
                             ELSE << <<"y", "x">>, <<"z">> >>]

\* Request names forwarded to devices by upstream clients.
Cmds == {<<"reboot">>}

\* StateSensor name: self.name + '-' + 'state'
StateSensorName(d) == <<d, "-", "state">>

\* The arguments an upstream client may give to ?sensor-value.
SensorValueArgs ==
  { <<>>,
    << <<"x">> >>,
    << <<"missing">> >>,
    << <<"/">> >>,
    << <<"A", "-", "state">> >>,
    << <<"/", "x", "/">> >>,
    << <<"/", "q", "/">> >> }

VARIABLES
  resolving,      \* devices whose reactor.resolve() is pending (add_device)
  devices,        \* ProxyKatCP.devices (its keys)
  sensors,        \* ProxyKatCP.sensors: name -> "local" or the proxied device
  ready_devices,  \* ProxyKatCP.ready_devices
  scan_called,    \* ProxyKatCP.scan_called
  state,          \* DeviceHandler.state
  stopping,       \* DeviceHandler.stopping
  requests,       \* DeviceHandler.requests
  dev_sensors,    \* DeviceHandler.sensors
  transport,      \* the device's TCP connection: none, connecting, up, closing
  timer,          \* reactor.callLater(1, schedule_resyncing) pending
  queries,        \* requests sent to the device and not yet answered
  out,            \* messages sent to the upstream client for its request
  counter,        \* _send_all_sensors: counter[0]
  wait_for,       \* _send_all_sensors: deferreds of the DeferredList not fired
  filter,         \* _send_all_sensors: filter (<<FALSE>> is None)
  req,            \* the upstream request being served (history)
  scan_complete_calls, \* number of devices_scan_complete() invocations (history)
  scan_missing,   \* configured devices never SYNCED when the event fired (history)
  synced_once,    \* devices that reached SYNCED at least once (history)
  stop_called,    \* <<>>, or <<the devices stop() went through>> (history)
  drops,          \* connection losses caused by the peer so far (history)
  nrequests,      \* requests received from the upstream client (history)
  sync_failed,    \* devices that answered help or sensor-list with a failure
                  \* on their current connection (history)
  connections,    \* KATCPServerTornado._connections (its keys, the streams)
  closed,         \* accepted streams whose IOStream is closed
  full,           \* open streams whose write buffer is at max_write_buffer_size
  written,        \* messages written to each stream
  disconnect_calls, \* on_client_disconnect calls of the device, per stream
  last,           \* the last send_message or mass_send_message call (history)
  nsends,         \* send calls so far (history)
  reading,        \* read_until calls outstanding on each stream
  inbox,          \* lines received on each stream and not yet read
  arrived,        \* lines received on each stream (history)
  handled,        \* lines passed to handle_message, per stream (history)
  running,        \* KATCPServerTornado._running is set
  stopped,        \* KATCPServerTornado._stopped is set
  ioloop_managed, \* KATCPServerTornado._ioloop_managed
  pending,        \* callbacks queued on the ioloop by add_callback, in order
  listening,      \* listening sockets the server has bound and not closed
  passed,         \* start() calls past the guard since the last uninstall (history)
  threads,        \* ioloop threads started since the last uninstall (history)
  socks,          \* sockets bound since the last uninstall (history)
  installs,       \* _install runs since the last uninstall (history)
  start_result,   \* how the last start() call ended (history)
  ncalls          \* start() and stop() calls so far (history)

vars ==
  << resolving, devices, sensors, ready_devices, scan_called, state, stopping,
     requests, dev_sensors, transport, timer, queries, out, counter, wait_for,
     filter, req, scan_complete_calls, scan_missing, synced_once, stop_called,
     drops, nrequests, sync_failed, connections, closed, full, written,
     disconnect_calls, last, nsends, reading, inbox, arrived, handled,
     running, stopped, ioloop_managed, pending, listening, passed, threads,
     socks, installs, start_result, ncalls >>

\* The variables of the proxy (txbase) and of the server transport (tornado_io)
txVars ==
  << resolving, devices, sensors, ready_devices, scan_called, state, stopping,
     requests, dev_sensors, transport, timer, queries, out, counter, wait_for,
     filter, req, scan_complete_calls, scan_missing, synced_once, stop_called,
     drops, nrequests, sync_failed >>
readVars == << reading, inbox, arrived, handled >>
sendVars == << full, written, last, nsends >>
startVars == << running, stopped, ioloop_managed, pending, listening, passed,
               threads, socks, installs, start_result, ncalls >>
connVars == << connections, closed, full, written, disconnect_calls, last,
              nsends, reading, inbox, arrived, handled >>
ioVars == << connVars, startVars >>

proxyVars == << ready_devices, scan_called, scan_complete_calls, scan_missing,
                synced_once >>
clientVars == << out, counter, wait_for, filter, req, nrequests >>

\* The streams the server may accept.
Streams == 1..MaxStreams

\* No send call yet. A call records the stream it was given, the streams of
\* the map that were open with room in their buffer when it began, the
\* streams it wrote to, and the exception it raised to its caller.
NoCall == [op |-> "none", stream |-> 0, live |-> {}, delivered |-> {},
           raised |-> "none"]

\* ------------------------------------------------------------- messages
Reply(name, args) == [t |-> "reply", name |-> name, args |-> args]
SENSOR_VALUE == <<"sensor", "-", "value">>
\* #sensor-value <timestamp> 1 <sensor> <status> <value>, received from src
SensorInform(sensor, value, src) ==
  [t |-> "inform", name |-> SENSOR_VALUE, sensor |-> sensor, status |-> "ok",
   value |-> value, src |-> src]

\* A request sent to a device on its current connection, waiting for its
\* reply.
Query(kind, arg) == [kind |-> kind, arg |-> arg, conn |-> "current"]

\* The connection the pending requests were sent on is lost.
Lost(qs) == [i \in 1..Len(qs) |-> [qs[i] EXCEPT !.conn = "lost"]]
IsCurrent(q) == q.conn = "current"

\* The upstream request being served: its kind and name, the device it names
\* and that device's state on arrival, the devices a sub-request was sent to,
\* those whose sub-request failed or was answered, and the informs and reply
\* arguments of the device's answer to a forwarded request; whether the sensor
\* it names was in the sensor map, the SYNCED devices and the local sensors it
\* selects on arrival, and the informs devices answered to its sub-requests;
\* for a list request and a request with a pattern, the sensor names
\* registered on arrival, and for a list request the devices.
NoRequest == [kind |-> "none", name |-> <<>>, arg |-> <<>>, dev |-> "",
              devstate |-> UNSYNCED, sent |-> {}, failed |-> {},
              replied |-> {}, got |-> 0, gotargs |-> <<>>, known |-> FALSE,
              synced |-> {}, locals |-> {}, recv |-> <<>>, names |-> {},
              devs |-> {}]

\* ------------------------------------------------------------- helpers
Put(map, key, value) ==
  [k \in DOMAIN map \cup {key} |-> IF k = key THEN value ELSE map[k]]

RECURSIVE PutAll(_, _, _)
PutAll(map, keys, value) ==
  IF keys = <<>> THEN map
  ELSE PutAll(Put(map, Head(keys), value), Tail(keys), value)

\* re.match(filter, name) for a literal pattern: the match is anchored at the
\* start of the name.
ReMatch(pat, name) ==
  /\ Len(pat) <= Len(name)
  /\ SubSeq(name, 1, Len(pat)) = pat

\* filter is None or re.match(filter, name)
Passes(f, name) == f = <<FALSE>> \/ ReMatch(f[2], name)

\* The orders in which a dict may be iterated.
Orders(S) ==
  { s \in [1..Cardinality(S) -> S] : \A i, j \in 1..Cardinality(S) :
                                        i # j => s[i] # s[j] }

RECURSIVE Informs(_, _, _)
Informs(names, f, src) ==
  IF names = <<>> THEN <<>>
  ELSE IF Passes(f, Head(names))
       THEN <<SensorInform(Head(names), "v", src)>>
              \o Informs(Tail(names), f, src)
       ELSE Informs(Tail(names), f, src)

Init ==
  /\ resolving \in SUBSET Devs
  /\ devices = {}
  /\ sensors = << >>
  /\ ready_devices = 0
  /\ scan_called = FALSE
  /\ state = [d \in Devs |-> UNSYNCED]
  /\ stopping = [d \in Devs |-> FALSE]
  /\ requests = [d \in Devs |-> <<>>]
  /\ dev_sensors = [d \in Devs |-> <<>>]
  /\ transport = [d \in Devs |-> "none"]
  /\ timer = [d \in Devs |-> FALSE]
  /\ queries = [d \in Devs |-> <<>>]
  /\ out = <<>>
  /\ counter = 0
  /\ wait_for = {}
  /\ filter = <<FALSE>>
  /\ req = NoRequest
  /\ scan_complete_calls = 0
  /\ scan_missing = {}
  /\ synced_once = {}
  /\ stop_called = <<>>
  /\ drops = 0
  /\ nrequests = 0
  /\ sync_failed = {}
  /\ connections = {}
  /\ closed = {}
  /\ full = {}
  /\ written = [s \in Streams |-> 0]
  /\ disconnect_calls = [s \in Streams |-> 0]
  /\ last = NoCall
  /\ nsends = 0
  /\ reading = [s \in Streams |-> 0]
  /\ inbox = [s \in Streams |-> <<>>]
  /\ arrived = [s \in Streams |-> <<>>]
  /\ handled = [s \in Streams |-> <<>>]
  /\ running = FALSE
  /\ stopped = FALSE
  /\ ioloop_managed = TRUE
  /\ pending = <<>>
  /\ listening = 0
  /\ passed = 0
  /\ threads = 0
  /\ socks = 0
  /\ installs = 0
  /\ start_result = "none"
  /\ ncalls = 0

\* --------------------------------------------------------- ProxyKatCP
\* add_device: the registration waits for reactor.resolve(device.host).
add_device(d) ==
  /\ d \notin resolving \cup devices
  /\ resolving' = resolving \cup {d}
  /\ UNCHANGED << devices, sensors, state, stopping, requests, dev_sensors,
                  transport, timer, queries, stop_called, drops >>
  /\ UNCHANGED proxyVars
  /\ UNCHANGED sync_failed
  /\ UNCHANGED ioVars
  /\ UNCHANGED clientVars

\* add_device.really_add_device, with DeviceHandler.add_proxy.
really_add_device(d) ==
  /\ d \in resolving
  /\ resolving' = resolving \ {d}
  /\ transport' = [transport EXCEPT ![d] = "connecting"]
  /\ devices' = devices \cup {d}
  /\ sensors' = Put(sensors, StateSensorName(d), "local")
  /\ UNCHANGED << state, stopping, requests, dev_sensors, timer, queries,
                  stop_called, drops >>
  /\ UNCHANGED proxyVars
  /\ UNCHANGED sync_failed
  /\ UNCHANGED ioVars
  /\ UNCHANGED clientVars

\* A variant of device_ready without the one-shot flag.
device_ready_every_time(d) ==
  LET n == ready_devices + 1
      fire == n = Cardinality(devices)
  IN /\ ready_devices' = n
     /\ scan_called' = (scan_called \/ fire)
     /\ scan_complete_calls' = scan_complete_calls + (IF fire THEN 1 ELSE 0)
     /\ synced_once' = synced_once \cup {d}
     /\ scan_missing' = IF fire THEN (resolving \cup devices) \ synced_once'
                                ELSE scan_missing

\* ProxyKatCP.device_ready
device_ready(d) ==
  LET n == ready_devices + 1
      fire == n = Cardinality(devices) /\ ~scan_called
  IN /\ ready_devices' = n
     /\ scan_called' = (scan_called \/ fire)
     /\ scan_complete_calls' = scan_complete_calls + (IF fire THEN 1 ELSE 0)
     /\ synced_once' = synced_once \cup {d}
     /\ scan_missing' = IF fire THEN (resolving \cup devices) \ synced_once'
                                ELSE scan_missing

\* ------------------------------------------------------- DeviceHandler
\* The connection attempt succeeds: ClientDeviceFactory.buildProtocol hands
\* out the DeviceHandler and DeviceHandler.connectionMade runs.
\* DeviceHandler.connectionMade sending both synchronization requests at once.
connectionMade_pipelined(d) ==
  /\ transport[d] = "connecting"
  /\ transport' = [transport EXCEPT ![d] = "up"]
  /\ state' = [state EXCEPT ![d] = SYNCING]
  /\ queries' = [queries EXCEPT ![d] =
                   Append(Append(@, Query("help", <<>>)),
                          Query("sensor-list", <<>>))]
  /\ UNCHANGED << resolving, devices, sensors, stopping, requests,
                  dev_sensors, timer, stop_called, drops >>
  /\ UNCHANGED proxyVars
  /\ UNCHANGED clientVars
  /\ sync_failed' = sync_failed \ {d}
  /\ UNCHANGED ioVars

connectionMade(d) ==
  /\ transport[d] = "connecting"
  /\ transport' = [transport EXCEPT ![d] = "up"]
  /\ state' = [state EXCEPT ![d] = SYNCING]
  /\ queries' = [queries EXCEPT ![d] = Append(@, Query("help", <<>>))]
  /\ UNCHANGED << resolving, devices, sensors, stopping, requests,
                  dev_sensors, timer, stop_called, drops >>
  /\ UNCHANGED proxyVars
  /\ sync_failed' = sync_failed \ {d}
  /\ UNCHANGED ioVars
  /\ UNCHANGED clientVars

\* The connection attempt fails: the factory does not override
\* clientConnectionFailed, so nothing is scheduled.
clientConnectionFailed(d) ==
  /\ transport[d] = "connecting"
  /\ transport' = [transport EXCEPT ![d] = "none"]
  /\ UNCHANGED << resolving, devices, sensors, state, stopping, requests,
                  dev_sensors, timer, queries, stop_called, drops >>
  /\ UNCHANGED proxyVars
  /\ UNCHANGED sync_failed
  /\ UNCHANGED ioVars
  /\ UNCHANGED clientVars

\* The head of the device's queue is the request the next reply answers.
Answering(d, kind) ==
  /\ transport[d] = "up"
  /\ queries[d] # <<>>
  /\ Head(queries[d]).kind = kind

\* connectionMade.got_help
got_help(d, status) ==
  /\ Answering(d, "help")
  /\ LET informs == IF status = "ok" THEN DevRequests[d] ELSE <<>>
     IN requests' = [requests EXCEPT ![d] = @ \o informs]
  /\ queries' = [queries EXCEPT ![d] =
                   Append(Tail(@), Query("sensor-list", <<>>))]
  /\ UNCHANGED << resolving, devices, sensors, state, stopping, dev_sensors,
                  transport, timer, stop_called, drops >>
  /\ UNCHANGED proxyVars
  /\ sync_failed' = IF status = "fail" THEN sync_failed \cup {d}
                    ELSE sync_failed
  /\ UNCHANGED ioVars
  /\ UNCHANGED clientVars

\* connectionMade.got_sensor_list, with ProxyKatCP.add_proxied_sensor.
got_sensor_list(d, status) ==
  /\ Answering(d, "sensor-list")
  /\ state' = [state EXCEPT ![d] = SYNCED]
  /\ LET informs == IF status = "ok" THEN DevSensors[d] ELSE <<>>
     IN /\ dev_sensors' = [dev_sensors EXCEPT ![d] = @ \o informs]
        /\ sensors' = PutAll(sensors, informs, d)
  /\ device_ready(d)
  /\ queries' = [queries EXCEPT ![d] = Tail(@)]
  /\ UNCHANGED << resolving, devices, stopping, requests, transport, timer,
                  stop_called, drops >>
  /\ UNCHANGED clientVars
  /\ sync_failed' = IF status = "fail" THEN sync_failed \cup {d}
                    ELSE sync_failed
  /\ UNCHANGED ioVars

\* DeviceHandler.schedule_resyncing, run by the delayed call.
schedule_resyncing(d) ==
  /\ timer[d]
  /\ timer' = [timer EXCEPT ![d] = FALSE]
  /\ transport' = [transport EXCEPT ![d] = "connecting"]
  /\ UNCHANGED << resolving, devices, sensors, state, stopping, requests,
                  dev_sensors, queries, stop_called, drops >>
  /\ UNCHANGED proxyVars
  /\ UNCHANGED sync_failed
  /\ UNCHANGED ioVars
  /\ UNCHANGED clientVars

\* ------------------------------------------- the deferreds of a request
ClientKinds == {"poll", "single", "fwd"}
IsClientQuery(q) == q.kind \in ClientKinds
ClientQueries(d) == SelectSeq(queries[d], IsClientQuery)

\* _send_all_sensors.all_ok
all_ok(o, c) == Append(o, Reply(SENSOR_VALUE, <<"ok", c>>))

\* A DeferredList that ignores a deferred that failed: it never fires.
DeferredList_errback_ignored(d, w) == w

\* DeferredList(wait_for): a deferred that fails counts as fired.
DeferredList_errback(d, w) == w \ {d}

\* DeferredList(wait_for): a deferred that succeeds counts as fired.
DeferredList_callback(d, w) == w \ {d}

\* __getattr__.request_failed
request_failed(o, dev_name, req_name) ==
  Append(o, Reply(<<dev_name, "-">> \o req_name, <<"fail", "Device not synced">>))

\* The pending requests of a lost connection fail: the errbacks that the
\* upstream request attached run, the other failures are unhandled.
Errbacks(d) ==
  LET cq == ClientQueries(d)
      same == [out |-> out, wait_for |-> wait_for, req |-> req]
  IN IF cq = <<>> THEN same
     ELSE LET q == Head(cq)
              r == [req EXCEPT !.failed = @ \cup {d}]
          IN CASE q.kind = "poll" ->
                    LET w == DeferredList_errback(d, wait_for)
                    IN [out |-> IF w = {} THEN all_ok(out, counter) ELSE out,
                        wait_for |-> w, req |-> r]
               [] q.kind = "fwd" ->
                    [out |-> request_failed(out, d, q.arg),
                     wait_for |-> wait_for, req |-> r]
               [] OTHER -> [same EXCEPT !.req = r]

\* A variant of connectionLost that schedules no new connection attempt.
connectionLost_no_resync(d) ==
  /\ state' = [state EXCEPT ![d] = UNSYNCED]
  /\ LET e == Errbacks(d)
     IN /\ out' = e.out
        /\ wait_for' = e.wait_for
        /\ req' = e.req
  /\ queries' = [queries EXCEPT ![d] = <<>>]
  /\ timer' = timer
  /\ transport' = [transport EXCEPT ![d] = "none"]
  /\ UNCHANGED << resolving, devices, sensors, stopping, requests,
                  dev_sensors, stop_called, counter, filter, nrequests >>
  /\ UNCHANGED proxyVars
  /\ UNCHANGED sync_failed
  /\ UNCHANGED ioVars

\* DeviceHandler.connectionLost without its call of
\* ClientKatCP.connectionLost: the pending requests stay in the queue.
connectionLost_without_base(d) ==
  /\ state' = [state EXCEPT ![d] = UNSYNCED]
  /\ UNCHANGED << out, wait_for, req >>
  /\ queries' = [queries EXCEPT ![d] = Lost(@)]
  /\ timer' = [timer EXCEPT ![d] = IF ~stopping[d] THEN TRUE ELSE @]
  /\ transport' = [transport EXCEPT ![d] = "none"]
  /\ UNCHANGED << resolving, devices, sensors, stopping, requests,
                  dev_sensors, stop_called, counter, filter, nrequests >>
  /\ UNCHANGED proxyVars
  /\ UNCHANGED sync_failed
  /\ UNCHANGED ioVars

\* DeviceHandler.connectionLost, with ClientKatCP.connectionLost: the requests
\* pending on the lost connection fail (Errbacks) and leave the queue.
connectionLost(d) ==
  /\ state' = [state EXCEPT ![d] = UNSYNCED]
  /\ LET e == Errbacks(d)
     IN /\ out' = e.out
        /\ wait_for' = e.wait_for
        /\ req' = e.req
  /\ queries' = [queries EXCEPT ![d] = SelectSeq(Lost(@), IsCurrent)]
  /\ timer' = [timer EXCEPT ![d] = IF ~stopping[d] THEN TRUE ELSE @]
  /\ transport' = [transport EXCEPT ![d] = "none"]
  /\ UNCHANGED << resolving, devices, sensors, stopping, requests,
                  dev_sensors, stop_called, counter, filter, nrequests >>
  /\ UNCHANGED proxyVars
  /\ UNCHANGED sync_failed
  /\ UNCHANGED ioVars

\* The peer closes the connection, or the network does.
PeerDisconnect(d) ==
  /\ transport[d] = "up"
  /\ drops < MaxDrops
  /\ drops' = drops + 1
  /\ connectionLost(d)

\* transport.loseConnection() completes.
LocalDisconnect(d) ==
  /\ transport[d] = "closing"
  /\ drops' = drops
  /\ connectionLost(d)

\* ProxyKatCP.stop
stop ==
  /\ stop_called = <<>>
  /\ stop_called' = <<devices>>
  /\ stopping' = [d \in Devs |->
                    IF d \in devices /\ state[d] # UNSYNCED THEN TRUE
                    ELSE stopping[d]]
  /\ transport' = [d \in Devs |->
                    IF d \in devices /\ state[d] # UNSYNCED THEN "closing"
                    ELSE transport[d]]
  /\ UNCHANGED << resolving, devices, sensors, state, requests, dev_sensors,
                  timer, queries, drops >>
  /\ UNCHANGED proxyVars
  /\ UNCHANGED sync_failed
  /\ UNCHANGED ioVars
  /\ UNCHANGED clientVars

\* ------------------------------------------------- replies of a device
\* _send_all_sensors.device_ok, then the DeferredList's own callback.
device_ok(d, status) ==
  /\ Answering(d, "poll")
  /\ LET informs == IF status = "ok" THEN DevSensors[d] ELSE <<>>
         sent == Informs(informs, filter, d)
         c == counter + Len(sent)
         w == DeferredList_callback(d, wait_for)
     IN /\ counter' = c
        /\ wait_for' = w
        /\ out' = IF w = {} THEN all_ok(out \o sent, c) ELSE out \o sent
  /\ req' = [req EXCEPT !.replied = @ \cup {d},
                        !.recv = @ \o Informs(
                                   IF status = "ok" THEN DevSensors[d] ELSE <<>>,
                                   <<FALSE>>, d)]
  /\ queries' = [queries EXCEPT ![d] = Tail(@)]
  /\ UNCHANGED << resolving, devices, sensors, state, stopping, requests,
                  dev_sensors, transport, timer, stop_called, drops, filter,
                  nrequests >>
  /\ UNCHANGED proxyVars
  /\ UNCHANGED sync_failed
  /\ UNCHANGED ioVars

\* request_sensor_value.send_single_ok, called with the device's answer:
\* informs[0] raises IndexError when the device sent no inform.
send_single_ok(d, status) ==
  /\ Answering(d, "single")
  /\ LET q == Head(queries[d])
         informs == IF status = "ok" THEN <<SensorInform(q.arg, "v", d)>>
                                     ELSE <<>>
         reply == Reply(SENSOR_VALUE, <<status, Len(informs)>>)
     IN /\ out' = IF informs = <<>> THEN out
                  ELSE out \o <<informs[1], reply>>
        /\ req' = [req EXCEPT !.replied = @ \cup {d}, !.got = Len(informs),
                              !.gotargs = reply.args]
  /\ queries' = [queries EXCEPT ![d] = Tail(@)]
  /\ UNCHANGED << resolving, devices, sensors, state, stopping, requests,
                  dev_sensors, transport, timer, stop_called, drops, counter,
                  wait_for, filter, nrequests >>
  /\ UNCHANGED proxyVars
  /\ UNCHANGED sync_failed
  /\ UNCHANGED ioVars

\* __getattr__.request_returned: "assert informs == []" raises when the
\* device sent informs, and then nothing is sent upstream.
request_returned(d, n, status) ==
  /\ Answering(d, "fwd")
  /\ LET q == Head(queries[d])
         args == <<status, "v">>
     IN /\ out' = IF n # 0 THEN out
                  ELSE Append(out, Reply(<<d, "-">> \o q.arg, args))
        /\ req' = [req EXCEPT !.replied = @ \cup {d}, !.got = n,
                              !.gotargs = args]
  /\ queries' = [queries EXCEPT ![d] = Tail(@)]
  /\ UNCHANGED << resolving, devices, sensors, state, stopping, requests,
                  dev_sensors, transport, timer, stop_called, drops, counter,
                  wait_for, filter, nrequests >>
  /\ UNCHANGED proxyVars
  /\ UNCHANGED sync_failed
  /\ UNCHANGED ioVars

\* --------------------------------------------------------- DeviceServer
\* The upstream client sends one request at a time.
ClientIdle == \A d \in Devs : ClientQueries(d) = <<>>

\* The upstream client sends its next request.
Receive ==
  /\ ClientIdle
  /\ nrequests < MaxClientRequests
  /\ nrequests' = nrequests + 1

\* ClientKatCP.send_request needs a connection to write to.
Connected(d) == transport[d] \in {"up", "closing"}

StateSensorDev(name) == CHOOSE d \in Devs : StateSensorName(d) = name

\* StateSensor.read_formatted, as the inform request_sensor_value builds
LocalInform(name) ==
  SensorInform(name, STATE_NAMES[state[StateSensorDev(name)] + 1], "local")

\* DeviceServer._send_all_sensors
send_all_sensors(f, r) ==
  LET synced == {d \in devices : state[d] = SYNCED}
      locals == {n \in DOMAIN sensors : sensors[n] = "local" /\ Passes(f, n)}
  IN \E ord \in Orders(locals) :
       /\ queries' = [d \in Devs |->
                        IF d \in synced
                        THEN Append(queries[d], Query("poll", <<>>))
                        ELSE queries[d]]
       /\ wait_for' = synced
       /\ counter' = Cardinality(locals)
       /\ out' = (IF synced = {} THEN all_ok(<<>>, 0) ELSE <<>>)
                   \o [i \in 1..Len(ord) |-> LocalInform(ord[i])]
       /\ filter' = f
       /\ req' = [r EXCEPT !.kind = "poll", !.sent = synced,
                           !.locals = locals]

IsPattern(name) ==
  Len(name) >= 2 /\ name[1] = "/" /\ name[Len(name)] = "/"

\* A variant of the lookup that polls every sensor when the name is unknown.
unknown_sensor_polls(name, r) == send_all_sensors(<<FALSE>>, r)

\* request_sensor_value, exact name: the sensor is absent from the map.
unknown_sensor(name, r) ==
  /\ out' = <<Reply(SENSOR_VALUE, <<"fail", "Unknown sensor name.">>)>>
  /\ req' = [r EXCEPT !.kind = "single"]
  /\ UNCHANGED << queries, counter, wait_for, filter >>

\* request_sensor_value, exact name
read_single_sensor(name, r) ==
  IF name \notin DOMAIN sensors THEN unknown_sensor(name, r)
  ELSE IF sensors[name] = "local"
  THEN /\ out' = <<LocalInform(name), Reply(SENSOR_VALUE, <<"ok", 1>>)>>
       /\ req' = [r EXCEPT !.kind = "single"]
       /\ UNCHANGED << queries, counter, wait_for, filter >>
  ELSE LET dv == sensors[name]
       IN /\ out' = <<>>
          /\ IF Connected(dv)
             THEN /\ queries' = [queries EXCEPT ![dv] =
                                   Append(@, Query("single", name))]
                  /\ req' = [r EXCEPT !.kind = "single", !.dev = dv,
                                      !.devstate = state[dv], !.sent = {dv}]
             ELSE /\ queries' = queries
                  /\ req' = [r EXCEPT !.kind = "single", !.dev = dv,
                                      !.devstate = state[dv],
                                      !.failed = {dv}]
          /\ UNCHANGED << counter, wait_for, filter >>

\* DeviceServer.request_sensor_value
request_sensor_value(args) ==
  /\ Receive
  /\ LET r == [NoRequest EXCEPT
                 !.name = SENSOR_VALUE, !.arg = args,
                 !.known = (args # <<>> /\ args[1] \in DOMAIN sensors),
                 !.synced = {d \in devices : state[d] = SYNCED},
                 !.names = IF args # <<>> /\ IsPattern(args[1])
                           THEN DOMAIN sensors ELSE {}]
     IN IF args = <<>> THEN send_all_sensors(<<FALSE>>, r)
        ELSE LET name == args[1]
             IN IF IsPattern(name)
                THEN send_all_sensors(<<TRUE, SubSeq(name, 2, Len(name) - 1)>>, r)
                ELSE read_single_sensor(name, r)
  /\ UNCHANGED << resolving, devices, sensors, state, stopping, requests,
                  dev_sensors, transport, timer, stop_called, drops >>
  /\ UNCHANGED proxyVars
  /\ UNCHANGED sync_failed
  /\ UNCHANGED ioVars

\* ------------------------------------------------- list requests
DEVICE_LIST == <<"device", "-", "list">>
SENSOR_LIST == <<"sensor", "-", "list">>

\* DeviceHandler.TYPE
TYPE == "full"

\* Message.inform(name, *args)
Inform(name, args) == [t |-> "inform", name |-> name, args |-> args]

\* The order of str on the device names.
Alphabet == <<"A", "sensor">>
Rank(d) == CHOOSE i \in 1..Len(Alphabet) : Alphabet[i] = d

\* The keys in the order a dict may iterate them when it is not sorted.
dict_order(S) ==
  CHOOSE s \in Orders(S) : \A i \in 1..(Len(s) - 1) : Rank(s[i]) > Rank(s[i + 1])

\* sorted(self.factory.devices)
sorted(S) ==
  CHOOSE s \in Orders(S) : \A i \in 1..(Len(s) - 1) : Rank(s[i]) < Rank(s[i + 1])

\* DeviceServer.request_device_list: one inform per device in sorted order,
\* then return "ok", len(self.factory.devices), which return_reply sends.
request_device_list ==
  /\ Receive
  /\ LET names == sorted(devices)
     IN out' = [i \in 1..Len(names) |-> Inform(DEVICE_LIST, <<names[i], TYPE>>)]
               \o <<Reply(DEVICE_LIST, <<"ok", Cardinality(devices)>>)>>
  /\ req' = [NoRequest EXCEPT !.kind = "device-list", !.name = DEVICE_LIST,
                              !.synced = {d \in devices : state[d] = SYNCED},
                              !.names = DOMAIN sensors, !.devs = devices]
  /\ UNCHANGED << resolving, devices, sensors, state, stopping, requests,
                  dev_sensors, transport, timer, queries, counter, wait_for,
                  filter, stop_called, drops >>
  /\ UNCHANGED proxyVars
  /\ UNCHANGED sync_failed
  /\ UNCHANGED ioVars

\* The arguments a client gives to sensor-list.
SensorListArgs == { <<>>, << <<"x">> >>, << <<"/", "x", "/">> >> }

\* DeviceServer.request_sensor_list: raises NotImplementedError before it
\* looks at the sensors, so the handler sends no inform and returns no reply;
\* the protocol either answers the exception with a fail reply or not at all.
request_sensor_list(args) ==
  /\ Receive
  /\ out' \in { <<>>, <<Reply(SENSOR_LIST, <<"fail", "NotImplementedError">>)>> }
  /\ req' = [NoRequest EXCEPT !.kind = "sensor-list", !.name = SENSOR_LIST,
                              !.arg = args,
                              !.synced = {d \in devices : state[d] = SYNCED},
                              !.names = DOMAIN sensors, !.devs = devices]
  /\ UNCHANGED << resolving, devices, sensors, state, stopping, requests,
                  dev_sensors, transport, timer, queries, counter, wait_for,
                  filter, stop_called, drops >>
  /\ UNCHANGED proxyVars
  /\ UNCHANGED sync_failed
  /\ UNCHANGED ioVars

\* ------------------------------------------------- compound dispatch
\* The handler looked up for a request: "request_" + name.replace("-", "_")
AttrOf(name) ==
  <<"request", "_">> \o [i \in 1..Len(name) |->
                           IF name[i] = "-" THEN "_" ELSE name[i]]

\* attr.split('_')
RECURSIVE Split(_, _)
Split(s, acc) ==
  IF s = <<>> THEN <<acc>>
  ELSE IF Head(s) = "_" THEN <<acc>> \o Split(Tail(s), <<>>)
       ELSE Split(Tail(s), Append(acc, Head(s)))

\* "_".join(lst)
RECURSIVE Join(_)
Join(lst) ==
  IF lst = <<>> THEN <<>>
  ELSE IF Len(lst) = 1 THEN lst[1]
       ELSE lst[1] \o <<"_">> \o Join(Tail(lst))

\* No handler for the request: the server answers it as an unknown request.
unknown_request(r) ==
  /\ out' = <<Reply(r.name, <<"invalid", "Unknown request.">>)>>
  /\ req' = [r EXCEPT !.kind = "unknown"]
  /\ queries' = queries

\* __getattr__.callback
callback(device, dev_name, req_name, r) ==
  LET r1 == [r EXCEPT !.kind = "compound", !.dev = device,
                      !.devstate = state[device]]
  IN IF state[device] = UNSYNCED
     THEN /\ out' = <<Reply(dev_name \o <<"-">> \o req_name,
                            <<"fail", "Device not synced">>)>>
          /\ req' = r1
          /\ queries' = queries
     ELSE /\ out' = <<>>
          /\ req' = [r1 EXCEPT !.sent = {device}]
          /\ queries' = [queries EXCEPT ![device] =
                           Append(@, Query("fwd", req_name))]

\* DeviceServer.__getattr__ looking the device up among the configured
\* devices, registered or not.
getattr_configured(name, r) ==
  LET lst == Split(AttrOf(name), <<>>)
  IN IF Len(lst) < 3 THEN unknown_request(r)
     ELSE LET dev_name == lst[2]
              req_name == Join(SubSeq(lst, 3, Len(lst)))
          IN IF Len(dev_name) = 1 /\ dev_name[1] \in resolving \cup devices
             THEN callback(dev_name[1], dev_name, req_name, r)
             ELSE unknown_request(r)

\* DeviceServer.__getattr__, for the handler of the request called name
getattr(name, r) ==
  LET lst == Split(AttrOf(name), <<>>)
  IN IF Len(lst) < 3 THEN unknown_request(r)
     ELSE LET dev_name == lst[2]
              req_name == Join(SubSeq(lst, 3, Len(lst)))
          IN IF Len(dev_name) = 1 /\ dev_name[1] \in devices
             THEN callback(dev_name[1], dev_name, req_name, r)
             ELSE unknown_request(r)

\* A request that has no handler method in the class: __getattr__ is asked.
request_other(name) ==
  /\ Receive
  /\ getattr(name, [NoRequest EXCEPT
                      !.name = name,
                      !.known = (name[1] \in devices),
                      !.synced = {x \in devices : state[x] = SYNCED}])
  /\ UNCHANGED << resolving, devices, sensors, state, stopping, requests,
                  dev_sensors, transport, timer, stop_called, drops, counter,
                  wait_for, filter >>
  /\ UNCHANGED proxyVars
  /\ UNCHANGED sync_failed
  /\ UNCHANGED ioVars

\* A request named <d>-<cmd>
request_compound(d, cmd) == request_other(<<d, "-">> \o cmd)

\* The names of the requests a client sends: the three commands of the proxy,
\* commands of the devices A and sensor, and names that are no command.
RequestNames ==
  { SENSOR_VALUE, DEVICE_LIST, SENSOR_LIST,
    <<"A", "-", "reboot">>, <<"sensor", "-", "reboot">>,
    <<"A", "-", "set", "-", "mode">>,
    <<"C", "-", "reboot">>, <<"A">>, <<"reboot">> }

\* The request is handled by the method request_<name> when the class has
\* it, and else by what __getattr__ returns.
handle_request(name) ==
  IF AttrOf(name) = AttrOf(SENSOR_VALUE) THEN request_sensor_value(<<>>)
  ELSE IF AttrOf(name) = AttrOf(DEVICE_LIST) THEN request_device_list
  ELSE IF AttrOf(name) = AttrOf(SENSOR_LIST) THEN request_sensor_list(<<>>)
  ELSE request_other(name)

\* ------------------------------------------------- server transport
\* The lines a client sends; handle_message raises an exception on "bad".
Lines == {"msg", "bad"}

\* KATCPServerTornado._receive_msg: stream.read_until('\n', callback). The
\* result is the number of reads outstanding on the stream: on a closed
\* stream read_until raises StreamClosedError and the method returns; while a
\* read is outstanding read_until raises ("Already reading") and the call is
\* queued again; else the read is outstanding.
receive_msg(isclosed, outstanding) ==
  IF isclosed THEN outstanding
  ELSE IF outstanding > 0 THEN outstanding
  ELSE outstanding + 1

\* KATCPServerTornado._handle_stream: a client connection is accepted; its
\* close callback is set, it enters the map of connections and the first
\* read is started.
handle_stream(s) ==
  /\ s \notin connections
  /\ s = Cardinality(connections) + 1
  /\ connections' = connections \cup {s}
  /\ reading' = [reading EXCEPT ![s] = receive_msg(s \in closed, @)]
  /\ UNCHANGED << closed, full, written, disconnect_calls, last, nsends,
                  inbox, arrived, handled >>
  /\ UNCHANGED startVars
  /\ UNCHANGED txVars

\* The number of lines received on the streams of S.
RECURSIVE Received(_)
Received(S) ==
  IF S = {} THEN 0
  ELSE LET s == CHOOSE x \in S : TRUE
       IN Len(arrived[s]) + Received(S \ {s})

\* A connected client sends a line.
client_sends(s, line) ==
  /\ s \in connections \ closed
  /\ Received(Streams) < MaxLines
  /\ arrived' = [arrived EXCEPT ![s] = Append(@, line)]
  /\ inbox' = [inbox EXCEPT ![s] = Append(@, line)]
  /\ UNCHANGED << connections, closed, disconnect_calls, reading, handled >>
  /\ UNCHANGED sendVars
  /\ UNCHANGED startVars
  /\ UNCHANGED txVars

\* The callback of _receive_msg with the exception of handle_message not
\* caught: after a line that raises, no read is started.
callback_unguarded(s) ==
  /\ reading[s] > 0
  /\ inbox[s] # <<>>
  /\ inbox' = [inbox EXCEPT ![s] = Tail(@)]
  /\ handled' = [handled EXCEPT ![s] = Append(@, Head(inbox[s]))]
  /\ reading' = [reading EXCEPT ![s] =
                   IF Head(inbox[s]) = "bad" THEN @ - 1
                   ELSE receive_msg(s \in closed, @ - 1)]
  /\ UNCHANGED << connections, closed, disconnect_calls, arrived >>
  /\ UNCHANGED sendVars
  /\ UNCHANGED startVars
  /\ UNCHANGED txVars

\* The callback of _receive_msg: the outstanding read completes with the
\* first line not yet read; the line is passed to handle_message, whose
\* exceptions are caught and dropped; then _receive_msg starts the next read.
receive_msg_callback(s) ==
  /\ reading[s] > 0
  /\ inbox[s] # <<>>
  /\ inbox' = [inbox EXCEPT ![s] = Tail(@)]
  /\ handled' = [handled EXCEPT ![s] = Append(@, Head(inbox[s]))]
  /\ reading' = [reading EXCEPT ![s] = receive_msg(s \in closed, @ - 1)]
  /\ UNCHANGED << connections, closed, disconnect_calls, arrived >>
  /\ UNCHANGED sendVars
  /\ UNCHANGED startVars
  /\ UNCHANGED txVars

\* KATCPServerTornado._stream_closed_callback: pass
stream_closed_callback(s) ==
  /\ connections' = connections
  /\ disconnect_calls' = disconnect_calls

\* The IOStream of an accepted connection is closed, by the peer or by the
\* local side: the first close runs the close callback set by _handle_stream
\* and drops the outstanding read; a close of a closed stream does nothing.
stream_close(s, by) ==
  /\ s \in connections
  /\ by \in {"peer", "local"}
  /\ IF s \in closed
     THEN UNCHANGED << connections, closed, full, disconnect_calls >>
     ELSE /\ closed' = closed \cup {s}
          /\ full' = full \ {s}
          /\ stream_closed_callback(s)
  /\ reading' = [reading EXCEPT ![s] = 0]
  /\ UNCHANGED << written, last, nsends, inbox, arrived, handled >>
  /\ UNCHANGED startVars
  /\ UNCHANGED txVars

\* The peer stops reading: the write buffer of the stream reaches
\* max_write_buffer_size (MAX_MSG_SIZE, set by _handle_stream).
write_buffer_full(s) ==
  /\ s \in connections \ (closed \cup full)
  /\ full' = full \cup {s}
  /\ UNCHANGED << connections, closed, written, disconnect_calls, last, nsends >>
  /\ UNCHANGED readVars
  /\ UNCHANGED startVars
  /\ UNCHANGED txVars

\* stream.write(str(msg) + '\n'): the exception it raises, or "none"
write(s) ==
  IF s \in closed THEN "StreamClosedError"
  ELSE IF s \in full THEN "StreamBufferFullError"
  ELSE "none"

\* The streams of the map a write succeeds on.
Live == {s \in connections : write(s) = "none"}

\* KATCPServerTornado.send_message: return stream.write(...), nothing caught
send_message(s) ==
  /\ s \in connections
  /\ nsends < MaxSends
  /\ nsends' = nsends + 1
  /\ written' = [written EXCEPT ![s] = IF write(s) = "none" THEN @ + 1 ELSE @]
  /\ last' = [op |-> "send_message", stream |-> s, live |-> Live,
              delivered |-> IF write(s) = "none" THEN {s} ELSE {},
              raised |-> write(s)]
  /\ UNCHANGED << connections, closed, full, disconnect_calls >>
  /\ UNCHANGED readVars
  /\ UNCHANGED startVars
  /\ UNCHANGED txVars

\* KATCPServerTornado.mass_send_message: send_message to each key of the map
\* in the order the dict gives them; the first exception ends the loop.
mass_send_message ==
  /\ nsends < MaxSends
  /\ nsends' = nsends + 1
  /\ \E order \in Orders(connections) :
       LET n == Len(order)
           bad == {i \in 1..n : write(order[i]) # "none"}
           k == IF bad = {} THEN n + 1
                ELSE CHOOSE i \in bad : \A j \in bad : i <= j
           sent == {order[i] : i \in 1..(k - 1)}
       IN /\ written' = [s \in Streams |->
                           IF s \in sent THEN written[s] + 1 ELSE written[s]]
          /\ last' = [op |-> "mass_send_message", stream |-> 0, live |-> Live,
                      delivered |-> sent,
                      raised |-> IF bad = {} THEN "none" ELSE write(order[k])]
  /\ UNCHANGED << connections, closed, full, disconnect_calls >>
  /\ UNCHANGED readVars
  /\ UNCHANGED startVars
  /\ UNCHANGED txVars

\* The server transport: clients connect, stall and disconnect while the
\* device sends them messages.
TransportNext ==
  \/ \E s \in Streams : handle_stream(s)
  \/ \E s \in Streams, by \in {"peer", "local"} : stream_close(s, by)
  \/ \E s \in Streams : write_buffer_full(s)
  \/ \E s \in Streams : send_message(s)
  \/ mass_send_message

\* KATCPServerTornado.set_ioloop: the server is given the ioloop of its
\* caller, before it is started.
set_ioloop ==
  /\ ioloop_managed
  /\ ncalls = 0
  /\ ioloop_managed' = FALSE
  /\ UNCHANGED << running, stopped, pending, listening, passed, threads,
                  socks, installs, start_result, ncalls >>
  /\ UNCHANGED connVars
  /\ UNCHANGED txVars

\* KATCPServerTornado._bind_socket: the results of sock.bind(bindaddr). While
\* a listening socket of the server holds the address, the platform either
\* refuses the second bind or, with SO_REUSEADDR, accepts it.
bind_socket == IF listening > 0 THEN {"socket.error", "bound"} ELSE {"bound"}

\* KATCPServerTornado.start, called from the thread of the caller: the guard
\* reads _running, which only _install sets, later, on the ioloop.
start ==
  /\ ncalls < MaxCalls
  /\ ncalls' = ncalls + 1
  /\ IF running
     THEN /\ start_result' = "Server already started"
          /\ UNCHANGED << stopped, pending, listening, passed, threads, socks >>
     ELSE /\ stopped' = FALSE
          /\ passed' = passed + 1
          /\ threads' = IF ioloop_managed THEN threads + 1 ELSE threads
          /\ \E b \in bind_socket :
               IF b = "bound"
               THEN /\ listening' = listening + 1
                    /\ socks' = socks + 1
                    /\ pending' = Append(pending, "install")
                    /\ start_result' = "returned"
               ELSE /\ start_result' = "socket.error"
                    /\ UNCHANGED << listening, socks, pending >>
  /\ UNCHANGED << running, ioloop_managed, installs >>
  /\ UNCHANGED connVars
  /\ UNCHANGED txVars

\* KATCPServerTornado.stop, called on a server that start() was called on:
\* it waits at most timeout for _running and queues _uninstall.
stop_server ==
  /\ ncalls < MaxCalls
  /\ passed > 0 \/ running
  /\ ncalls' = ncalls + 1
  /\ pending' = Append(pending, "uninstall")
  /\ UNCHANGED << running, stopped, ioloop_managed, listening, passed,
                  threads, socks, installs, start_result >>
  /\ UNCHANGED connVars
  /\ UNCHANGED txVars

\* KATCPServerTornado._install, run by the ioloop
install ==
  /\ pending # <<>> /\ Head(pending) = "install"
  /\ pending' = Tail(pending)
  /\ installs' = installs + 1
  /\ running' = TRUE
  /\ UNCHANGED << stopped, ioloop_managed, listening, passed, threads, socks,
                  start_result, ncalls >>
  /\ UNCHANGED connVars
  /\ UNCHANGED txVars

\* KATCPServerTornado._uninstall, run by the ioloop: the TCPServer closes the
\* listening socket it was given.
uninstall ==
  /\ pending # <<>> /\ Head(pending) = "uninstall"
  /\ pending' = Tail(pending)
  /\ listening' = IF installs > 0 /\ listening > 0 THEN listening - 1
                  ELSE listening
  /\ running' = FALSE
  /\ stopped' = TRUE
  /\ passed' = 0
  /\ threads' = 0
  /\ socks' = 0
  /\ installs' = 0
  /\ UNCHANGED << ioloop_managed, start_result, ncalls >>
  /\ UNCHANGED connVars
  /\ UNCHANGED txVars

\* The server transport started and stopped by its owner.
StartNext ==
  \/ set_ioloop
  \/ start
  \/ stop_server
  \/ install
  \/ uninstall

\* The server transport reading the lines of its clients.
ReceiveNext ==
  \/ \E s \in Streams : handle_stream(s)
  \/ \E s \in Streams, by \in {"peer", "local"} : stream_close(s, by)
  \/ \E s \in Streams, line \in Lines : client_sends(s, line)
  \/ \E s \in Streams : receive_msg_callback(s)

\* The proxy dispatching the requests of a client by their names while its
\* devices are registered, connect and synchronise.
DispatchNext ==
  \/ \E d \in Devs : really_add_device(d)
  \/ \E d \in Devs : connectionMade(d)
  \/ \E d \in Devs : got_help(d, "ok")
  \/ \E d \in Devs : got_sensor_list(d, "ok")
  \/ \E name \in RequestNames : handle_request(name)
  \/ \E d \in Devs : device_ok(d, "ok")
  \/ \E d \in Devs, n \in 0..MaxInforms : request_returned(d, n, "ok")

\* ------------------------------------------------------ specification
Statuses == {"ok", "fail"}

\* The proxy and its devices: registration, synchronization, connection
\* loss, resynchronization and stop().
Lifecycle ==
  \/ \E d \in Devs : add_device(d)
  \/ \E d \in Devs : really_add_device(d)
  \/ \E d \in Devs : connectionMade(d)
  \/ \E d \in Devs, st \in Statuses : got_help(d, st)
  \/ \E d \in Devs, st \in Statuses : got_sensor_list(d, st)
  \/ \E d \in Devs : schedule_resyncing(d)
  \/ \E d \in Devs : PeerDisconnect(d)
  \/ \E d \in Devs : LocalDisconnect(d)
  \/ stop

\* The requests of the upstream client and the answers of the devices to the
\* requests made on its behalf.
Upstream ==
  \/ \E d \in Devs, st \in Statuses : device_ok(d, st)
  \/ \E d \in Devs, st \in Statuses : send_single_ok(d, st)
  \/ \E d \in Devs, n \in 0..MaxInforms, st \in Statuses :
       request_returned(d, n, st)
  \/ \E args \in SensorValueArgs : request_sensor_value(args)
  \/ \E d \in Devs, cmd \in Cmds : request_compound(d, cmd)

\* The list requests of a client.
ListRequests ==
  \/ request_device_list
  \/ \E args \in SensorListArgs : request_sensor_list(args)

Next ==
  \/ Lifecycle
  \/ \E d \in Devs : clientConnectionFailed(d)
  \/ Upstream
  \/ ListRequests
  \/ TransportNext
  \/ ReceiveNext
  \/ StartNext
  \/ DispatchNext

Spec == Init /\ [][Next]_vars

\* The proxy without upstream clients.
LifecycleNext ==
  \/ Lifecycle
  \/ \E d \in Devs : clientConnectionFailed(d)

LifecycleSpec == Init /\ [][LifecycleNext]_vars

\* The proxy while every device's peer stays reachable: the reactor runs each
\* delayed call and completes each connection attempt.
ReachableNext == Lifecycle

ReachableSpec ==
  /\ Init
  /\ [][ReachableNext]_vars
  /\ \A d \in Devs : WF_vars(schedule_resyncing(d))
  /\ \A d \in Devs : WF_vars(connectionMade(d))

\* The proxy serving an upstream client, its devices configured at
\* construction, reachable and answering the synchronization requests.
ClientNext ==
  \/ \E d \in Devs : really_add_device(d)
  \/ \E d \in Devs : connectionMade(d)
  \/ \E d \in Devs : got_help(d, "ok")
  \/ \E d \in Devs : got_sensor_list(d, "ok")
  \/ \E d \in Devs : schedule_resyncing(d)
  \/ \E d \in Devs : PeerDisconnect(d)
  \/ Upstream

ClientSpec == Init /\ [][ClientNext]_vars

\* The proxy answering the list requests of a client while its devices
\* connect, synchronise and drop.
ListNext ==
  \/ \E d \in Devs : really_add_device(d)
  \/ \E d \in Devs : connectionMade(d)
  \/ \E d \in Devs : got_help(d, "ok")
  \/ \E d \in Devs : got_sensor_list(d, "ok")
  \/ \E d \in Devs : schedule_resyncing(d)
  \/ \E d \in Devs : PeerDisconnect(d)
  \/ ListRequests

ListSpec == Init /\ [][ListNext]_vars

TransportSpec == Init /\ [][TransportNext]_vars

ReceiveSpec == Init /\ [][ReceiveNext]_vars

StartSpec == Init /\ [][StartNext]_vars

DispatchSpec == Init /\ [][DispatchNext]_vars

\* ------------------------------------------------------------- claims
\* C1: over any sequence of connects, syncs, connection losses and resyncs,
\* device_ready invokes devices_scan_complete at most once; a device that
\* resyncs after the event has fired does not fire it again.
C1_ScanCompleteAtMostOnce == scan_complete_calls <= 1

\* C1 witness: the event has fired and a device has completed a further
\* synchronization since (more syncs counted than there are devices).
C1_Witness ==
  /\ scan_complete_calls = 1
  /\ drops > 0
  /\ ready_devices > Cardinality(devices)

\* C2: in every reachable state the readiness counter is at most the number
\* of registered devices, also after a device lost its connection and
\* synchronized again.
C2_ReadyAtMostDevices == ready_devices <= Cardinality(devices)

\* C3: the topology-ready event never fires while some configured device has
\* not reached SYNCED at least once.
C3_ScanCompleteAfterAllSynced == scan_missing = {}

\* C4: a connection loss in any state sets the handler's state to UNSYNCED
\* and, unless the handler is stopping, schedules a new connection attempt, so
\* that a device whose peer stays reachable enters SYNCING again.
C4_LossThenResync ==
  /\ [][\A d \in Devs :
          (Connected(d) /\ transport'[d] = "none")
            => /\ state'[d] = UNSYNCED
               /\ ~stopping[d] => timer'[d]]_vars
  /\ \A d \in Devs : timer[d] ~> (state[d] = SYNCING)

\* C4 witness: a device that was SYNCED has lost its connection, is UNSYNCED
\* and has its new connection attempt scheduled.
C4_Witness ==
  \E d \in Devs :
    /\ d \in synced_once
    /\ state[d] = UNSYNCED
    /\ ~stopping[d]
    /\ timer[d]

\* C5: once stop() has been called, no device it went through makes a
\* further connection attempt or leaves UNSYNCED, whatever state the device
\* was in when stop() ran.
C5_NoReconnectAfterStop ==
  [][\A d \in Devs :
       (stop_called # <<>> /\ d \in stop_called[1])
         => /\ transport'[d] = "connecting" => transport[d] = "connecting"
            /\ state[d] = UNSYNCED => state'[d] = UNSYNCED]_vars

\* C6: a compound request received while the named device is UNSYNCED or
\* SYNCING is answered "<device>-<command> fail Device not synced" and no
\* request is sent to the device.
C6_NotSyncedRefused ==
  (req.kind = "compound" /\ req.devstate # SYNCED)
    => /\ req.sent = {}
       /\ out = <<Reply(req.name, <<"fail", "Device not synced">>)>>

\* C7: when a SYNCED device has answered a forwarded compound request, the
\* upstream client has received every inform of the answer followed by
\* exactly one reply named <device>-<command> with the device reply's status
\* and arguments.
C7_ForwardedAnswerRelayed ==
  (req.kind = "compound" /\ req.devstate = SYNCED /\ req.replied # {})
    => /\ Len(out) = req.got + 1
       /\ \A i \in 1..req.got : out[i].t = "inform"
       /\ out[Len(out)] = Reply(req.name, req.gotargs)

\* C8: in a poll over all sensors no inform follows the final reply, the
\* reply's count is the number of informs sent, and the reply has been sent
\* once every sub-request has completed; for any number of SYNCED devices.
C8_ReplyLastWithCount ==
  req.kind = "poll"
    => /\ \A i \in 1..Len(out) :
            out[i].t = "reply"
              => i = Len(out) /\ out[i].args = <<"ok", Len(out) - 1>>
       /\ req.sent = req.replied \cup req.failed
            => out # <<>> /\ out[Len(out)].t = "reply"

IsDeviceInform(m) == m.t = "inform" /\ m.src # "local"
IsLocalInform(m) == m.t = "inform" /\ m.src = "local"
PassesFilter(m) == Passes(filter, m.sensor)

\* C9: in a poll where the sub-request to some SYNCED devices failed, once
\* every sub-request has completed the informs of the devices that answered
\* have been forwarded and exactly one final reply has been sent, last, whose
\* count covers the local informs and the answering devices' informs.
C9_FailuresTolerated ==
  (req.kind = "poll" /\ req.failed # {}
     /\ req.sent = req.replied \cup req.failed)
    => /\ out # <<>>
       /\ \A i \in 1..Len(out) : out[i].t = "reply" <=> i = Len(out)
       /\ SelectSeq(out, IsDeviceInform) = SelectSeq(req.recv, PassesFilter)
       /\ {m.sensor : m \in {out[i] : i \in {j \in 1..Len(out) :
                                               IsLocalInform(out[j])}}}
            = req.locals
       /\ out[Len(out)].args
            = <<"ok", Cardinality(req.locals)
                        + Len(SelectSeq(req.recv, PassesFilter))>>

\* C9 witness: a poll sent to two SYNCED devices has completed, one
\* sub-request failed and the other device's informs were forwarded.
C9_Witness ==
  /\ req.kind = "poll"
  /\ req.failed # {}
  /\ req.replied # {}
  /\ req.sent = req.replied \cup req.failed
  /\ SelectSeq(out, IsDeviceInform) # <<>>

\* C10: a sensor-value request naming a plain sensor name absent from the
\* sensor map is answered fail "Unknown sensor name.", with no inform and no
\* request to any device.
C10_UnknownSensorFails ==
  (req.name = SENSOR_VALUE /\ req.arg # <<>> /\ ~IsPattern(req.arg[1])
     /\ ~req.known)
    => /\ out = <<Reply(SENSOR_VALUE, <<"fail", "Unknown sensor name.">>)>>
       /\ req.sent = {}
       /\ ClientIdle

\* C10 witness: the unknown name was requested while a device was SYNCED.
C10_Witness ==
  /\ req.name = SENSOR_VALUE
  /\ req.arg = << <<"missing">> >>
  /\ ~req.known
  /\ req.synced # {}
  /\ out # <<>>

\* The name contains a match of the literal pattern, anywhere in it.
ContainsMatch(pat, name) ==
  \E i \in 1..(Len(name) + 1) :
    /\ i + Len(pat) - 1 <= Len(name)
    /\ SubSeq(name, i, i + Len(pat) - 1) = pat

InformedSensors == {out[i].sensor : i \in {j \in 1..Len(out) : out[j].t = "inform"}}
InformCount == Cardinality({j \in 1..Len(out) : out[j].t = "inform"})

\* C11: a sensor-value request with a /pattern/ argument, answered by every
\* device that owns a sensor of the federated map, yields exactly one inform
\* for each sensor whose name contains a match of the pattern anywhere in the
\* name, and an ok reply whose count is that number.
C11_PatternMatchesAnywhere ==
  (/\ req.kind = "poll" /\ req.arg # <<>>
   /\ req.failed = {} /\ req.sent = req.replied
   /\ {n \in req.names : sensors[n] # "local"}
        \subseteq {req.recv[i].sensor : i \in 1..Len(req.recv)})
    => LET pat == SubSeq(req.arg[1], 2, Len(req.arg[1]) - 1)
           want == {n \in req.names : ContainsMatch(pat, n)}
       IN /\ InformedSensors = want
          /\ InformCount = Cardinality(want)
          /\ out # <<>>
          /\ out[Len(out)] = Reply(SENSOR_VALUE, <<"ok", Cardinality(want)>>)

\* The sensors of the federated map a sensor-list argument selects: all of
\* them, the one with the given name, or those containing the pattern.
Listed(names, args) ==
  IF args = <<>> THEN names
  ELSE IF IsPattern(args[1])
       THEN {n \in names :
               ContainsMatch(SubSeq(args[1], 2, Len(args[1]) - 1), n)}
       ELSE {n \in names : n = args[1]}

\* C12: a sensor-list request served while every registered device is SYNCED
\* yields one inform per sensor of the federated map that the optional name
\* or /pattern/ selects, followed by the reply ok with their number.
C12_SensorListAnswered ==
  (req.kind = "sensor-list" /\ req.devs # {} /\ req.synced = req.devs)
    => LET want == Listed(req.names, req.arg)
           n == Cardinality(want)
       IN /\ Len(out) = n + 1
          /\ out[n + 1] = Reply(SENSOR_LIST, <<"ok", n>>)
          /\ \A i \in 1..n : out[i].t = "inform" /\ out[i].name = SENSOR_LIST
          /\ {out[i].args[1] : i \in 1..n} = want

C14_CloseReleasesOnce ==
  \A s \in closed : s \notin connections /\ disconnect_calls[s] = 1

\* C15: mass_send_message writes the message to every connection of the map
\* that can take it, whatever the other connections are and wherever they
\* come in the iteration.
C15_MassSendIndependent ==
  last.op = "mass_send_message" => last.live \subseteq last.delivered

\* C16: a send_message that fails raises nothing to its caller; the stream is
\* closed, out of the connection map, and the device was told of the
\* disconnection.
C16_FailedSendDisconnects ==
  (last.op = "send_message" /\ last.delivered = {})
    => /\ last.raised = "none"
       /\ last.stream \in closed
       /\ last.stream \notin connections
       /\ disconnect_calls[last.stream] = 1

\* C17: a help or sensor-list reply of a lost connection is dropped: whenever
\* a device's request names or sensor names grow, the device becomes SYNCED,
\* or device_ready is called, the reply that caused it answers a request sent
\* on the device's current connection.
C17_LostRepliesDropped ==
  [][/\ \A d \in Devs :
          (\/ state'[d] = SYNCED /\ state[d] # SYNCED
           \/ requests'[d] # requests[d]
           \/ dev_sensors'[d] # dev_sensors[d]
           \/ d \in synced_once' \ synced_once)
            => /\ transport[d] = "up"
               /\ queries[d] # <<>>
               /\ Head(queries[d]).kind \in {"help", "sensor-list"}
               /\ Head(queries[d]).conn = "current"
     /\ ready_devices' # ready_devices
          => \E d \in Devs : /\ transport[d] = "up"
                             /\ queries[d] # <<>>
                             /\ Head(queries[d]).kind = "sensor-list"
                             /\ Head(queries[d]).conn = "current"
                             /\ queries'[d] = Tail(queries[d])]_vars

\* Device A answered help twice and sensor-list once and is SYNCED: its first
\* connection was lost while the sensor-list reply was pending, and the
\* second connection synchronised.
C17_Witness ==
  /\ Len(requests["A"]) = 2 * Len(DevRequests["A"])
  /\ dev_sensors["A"] = DevSensors["A"]
  /\ state["A"] = SYNCED

\* C18: a device whose answer to help or to sensor-list on its current
\* connection was a failure is not SYNCED.
C18_FailedSyncNotSynced ==
  \A d \in sync_failed : state[d] # SYNCED

\* C19: a device that is not connected has no request names and no sensor
\* names, and a device SYNCED by a successful enumeration has exactly the
\* names of that enumeration, each once.
C19_ListsOfLastEnumeration ==
  \A d \in Devs :
    /\ state[d] = UNSYNCED => requests[d] = <<>> /\ dev_sensors[d] = <<>>
    /\ (state[d] = SYNCED /\ d \notin sync_failed)
         => requests[d] = DevRequests[d] /\ dev_sensors[d] = DevSensors[d]

\* The number of synchronization requests of a kind waiting for their reply.
Pending(d, kind) ==
  Cardinality({i \in 1..Len(queries[d]) : queries[d][i].kind = kind})

\* C20: on each connection the synchronization goes in one order: the state
\* becomes SYNCING only when the connection is made, together with the help
\* request; sensor-list is sent only when the help reply arrives; the device
\* becomes SYNCED, its sensors are registered and device_ready is called only
\* when the sensor-list reply arrives, from SYNCING and never from UNSYNCED.
C20_SyncOrder ==
  [][/\ \A d \in Devs :
          /\ (state'[d] = SYNCING /\ state[d] # SYNCING)
               => /\ transport[d] = "connecting" /\ transport'[d] = "up"
                  /\ queries'[d] = Append(queries[d], Query("help", <<>>))
          /\ Pending(d, "help")' > Pending(d, "help")
               => state'[d] = SYNCING /\ state[d] # SYNCING
          /\ Pending(d, "sensor-list")' > Pending(d, "sensor-list")
               => /\ state[d] = SYNCING
                  /\ queries[d] # <<>> /\ Head(queries[d]).kind = "help"
                  /\ queries'[d] = Append(Tail(queries[d]),
                                          Query("sensor-list", <<>>))
          /\ (\/ state'[d] = SYNCED /\ state[d] # SYNCED
              \/ dev_sensors'[d] # dev_sensors[d]
              \/ \E n \in DOMAIN sensors' : n \notin DOMAIN sensors
                                            /\ sensors'[n] = d)
               => /\ state[d] = SYNCING /\ state'[d] = SYNCED
                  /\ queries[d] # <<>>
                  /\ Head(queries[d]).kind = "sensor-list"
                  /\ queries'[d] = Tail(queries[d])
     /\ ready_devices' # ready_devices
          => \E d \in Devs : state[d] = SYNCING /\ state'[d] = SYNCED]_vars

\* A device went through the whole order on its connection and is SYNCED
\* with the names it reported.
C20_Witness ==
  \E d \in Devs :
    /\ state[d] = SYNCED /\ transport[d] = "up" /\ queries[d] = <<>>
    /\ d \notin sync_failed
    /\ requests[d] = DevRequests[d] /\ dev_sensors[d] = DevSensors[d]

\* C21: a sensor-value request naming a sensor of the federated map, local or
\* proxied, that waits for no device any more has been answered with exactly
\* one reply.
C21_SingleReadAnswered ==
  (req.kind = "single" /\ req.known /\ ClientIdle)
    => Cardinality({i \in 1..Len(out) : out[i].t = "reply"}) = 1

\* C22: on each connection the lines passed to handle_message are the lines
\* received, each once and in arrival order; at most one read is outstanding
\* on a stream; and a line on which handle_message raises leaves the
\* connection open with the next read outstanding, as every other line does.
C22_ReadLoop ==
  /\ [](\A s \in Streams :
          /\ reading[s] <= 1
          /\ handled[s] \o inbox[s] = arrived[s]
          /\ s \in connections \ closed => reading[s] = 1)
  /\ [][\A s \in Streams :
          handled'[s] # handled[s]
            => /\ handled'[s] = Append(handled[s], Head(inbox[s]))
               /\ (s \in closed') = (s \in closed)
               /\ connections' = connections]_vars

\* A line on which handle_message raised was followed by another line on the
\* same connection, which is still open.
C22_Witness ==
  \E s \in connections \ closed :
    /\ Len(handled[s]) >= 2
    /\ handled[s][1] = "bad"
    /\ handled[s] = arrived[s]
    /\ reading[s] = 1

\* The commands the proxy handles itself.
LocalCommands == {SENSOR_VALUE, DEVICE_LIST, SENSOR_LIST}

\* The request name has the shape <device>-<command>.
IsCompoundName(name) == Len(name) >= 3 /\ name[2] = "-"

C24_InstalledOncePerCycle ==
  /\ passed <= 1
  /\ threads <= 1
  /\ socks <= 1
  /\ installs <= 1

====
